---- MODULE Spec2Model ----
(***************************************************************************)
(* Model of create_template.py: the scaffolder that copies the             *)
(* canvas-course-template tree to a new directory, rewrites the title and  *)
(* course_code of course.json and regenerates README.md.                   *)
(*                                                                         *)
(* Strings are sequences of one-character strings.  The filesystem is      *)
(* reduced to the two paths the program touches: the template source tree  *)
(* (read only) and the target path.  A tree is a function from relative    *)
(* paths to entries.  The outcome of every filesystem call that can fail   *)
(* is chosen by the environment (the record env of an invocation).         *)
(***************************************************************************)
EXTENDS Integers, Sequences, FiniteSets, TLC

\* output_dir: args.directory, the name the program is run with
\* template:   what script_dir / "canvas-course-template" holds (never written)
\* target:     what Path(output_dir) holds
\* outcome:    how the last invocation ended: "none" | "returned" | "raised"
\* result:     the value it returned (meaningful when outcome = "returned")
\* printed:    the messages it printed, in order
\* io:         the outcomes its filesystem steps met
\* created:    whether an invocation has made the target directory
VARIABLES output_dir, template, target, outcome, result, printed, io, created

vars == <<output_dir, template, target, outcome, result, printed, io, created>>

(***************************************************************************)
(* Bounds                                                                  *)
(***************************************************************************)
MaxNameLen == 2

(***************************************************************************)
(* Characters and the str methods used on output_dir                       *)
(***************************************************************************)
Lowers ==
  <<"a","b","c","d","e","f","g","h","i","j","k","l","m",
    "n","o","p","q","r","s","t","u","v","w","x","y","z">>

Uppers ==
  <<"A","B","C","D","E","F","G","H","I","J","K","L","M",
    "N","O","P","Q","R","S","T","U","V","W","X","Y","Z">>

islower(c) == \E i \in DOMAIN Lowers : Lowers[i] = c

isupper(c) == \E i \in DOMAIN Uppers : Uppers[i] = c

iscased(c) == islower(c) \/ isupper(c)

char_upper(c) ==
  IF islower(c) THEN Uppers[CHOOSE i \in DOMAIN Lowers : Lowers[i] = c] ELSE c

char_lower(c) ==
  IF isupper(c) THEN Lowers[CHOOSE i \in DOMAIN Uppers : Uppers[i] = c] ELSE c

\* str.replace(old, new) for one-character old and new
str_replace(s, old, new) ==
  [i \in DOMAIN s |-> IF s[i] = old THEN new ELSE s[i]]

\* str.upper()
str_upper(s) == [i \in DOMAIN s |-> char_upper(s[i])]

\* a title-casing that only looks at whitespace-delimited words
str_title_words(s) ==
  [i \in DOMAIN s |->
     IF i > 1 /\ s[i-1] # " " THEN char_lower(s[i]) ELSE char_upper(s[i])]

\* str.title(): a cased character is upper-cased when the character before
\* it is not cased, and lower-cased when it is
str_title(s) ==
  [i \in DOMAIN s |->
     IF i > 1 /\ iscased(s[i-1]) THEN char_lower(s[i]) ELSE char_upper(s[i])]

\* output_dir.replace('-', ' ').replace('_', ' ').title()
display_title(name) == str_title(str_replace(str_replace(name, "-", " "), "_", " "))

\* output_dir.upper()
course_code(name) == str_upper(name)

(***************************************************************************)
(* File contents, entries and trees                                        *)
(***************************************************************************)
\* the relative paths of the template the model distinguishes
Paths == {"course.json", "README.md", "wiki_content/course.json"}

\* keys a course.json object may hold
JsonKeys == {"title", "course_code", "id"}

OrigValue ==
  [k \in JsonKeys |->
     CASE k = "title" -> <<"O","l","d">>
       [] k = "course_code" -> <<"T","P","L">>
       [] OTHER -> <<"4","2">>]

EmptyObj == [k \in {} |-> <<>>]

\* Contents of a file.  fmt is "raw" (bytes that are not JSON), "json" (a JSON
\* object in the template's own formatting), "json_other" (valid JSON that is
\* not an object), "json_indent2" (the output of json.dump(..., indent=2)),
\* "readme" (the generated README text) or "truncated" (a file opened for
\* writing whose write did not complete).
Content(fmt, obj, title, name) ==
  [fmt |-> fmt, obj |-> obj, title |-> title, name |-> name]

RawContent == Content("raw", EmptyObj, <<>>, <<>>)

TruncatedContent == Content("truncated", EmptyObj, <<>>, <<>>)

NoContent == Content("none", EmptyObj, <<>>, <<>>)

File(c) == [kind |-> "file", content |-> c]

Dir == [kind |-> "dir", content |-> NoContent]

Absent == [kind |-> "absent", content |-> NoContent]

EmptyTree == [p \in {} |-> Absent]

\* a tree from one choice (an entry or Absent) per path
MakeTree(choice) ==
  [p \in {q \in Paths : choice[q].kind # "absent"} |-> choice[p]]

TemplateObjects == {[k \in D |-> OrigValue[k]] : D \in SUBSET JsonKeys}

CourseJsonVariants ==
  {Absent, Dir, File(RawContent), File(Content("json_other", EmptyObj, <<>>, <<>>))}
    \cup {File(Content("json", o, <<>>, <<>>)) : o \in TemplateObjects}

ReadmeVariants == {Absent, Dir, File(RawContent)}

NestedVariants ==
  {Absent, File(Content("json", [k \in JsonKeys |-> OrigValue[k]], <<>>, <<>>))}

Trees ==
  {MakeTree([p \in Paths |->
      CASE p = "course.json" -> c
        [] p = "README.md" -> r
        [] OTHER -> n]) :
     c \in CourseJsonVariants, r \in ReadmeVariants, n \in NestedVariants}

\* what a path of the filesystem holds: nothing, a file, or a directory tree
Node(kind, tree) == [kind |-> kind, tree |-> tree]

Templates ==
  {Node("missing", EmptyTree), Node("file", EmptyTree)}
    \cup {Node("dir", t) : t \in Trees}

\* what the target path may hold before the first invocation
InitialTargets ==
  {Node("absent", EmptyTree), Node("file", EmptyTree), Node("dir", EmptyTree),
   Node("dir", MakeTree([p \in Paths |->
      CASE p = "course.json" ->
             File(Content("json", [k \in JsonKeys |-> OrigValue[k]], <<>>, <<>>))
        [] p = "README.md" -> File(RawContent)
        [] OTHER -> Absent]))}

(***************************************************************************)
(* Target names                                                            *)
(***************************************************************************)
NameAlphabet == {"a", "B", "9", "-"}

Year9Programming ==
  <<"y","e","a","r","9","-","p","r","o","g","r","a","m","m","i","n","g">>

Biology101 == <<"b","i","o","l","o","g","y","_","1","0","1">>

Names ==
  {Year9Programming, Biology101}
    \cup UNION {[1..n -> NameAlphabet] : n \in 1..MaxNameLen}

(***************************************************************************)
(* The environment: the outcome of each filesystem step of one invocation  *)
(***************************************************************************)
\* copy:    "ok" | "fail_early" (copytree raised before the target directory
\*          was made) | "partial" (it raised after making it)
\* copied:  for a partial copy, what became of each template entry
\* listing: "ok" | "fail" (iterdir / is_dir / rglob raised)
\* json:    "ok" | "read_fail" | "open_fail" | "write_fail"
\* readme:  "ok" | "open_fail" | "write_fail"
IO(copy, copied, listing, json, readme) ==
  [copy |-> copy, copied |-> copied, listing |-> listing, json |-> json,
   readme |-> readme]

NoCopied == [p \in {} |-> "copied"]

NoIO == IO("none", NoCopied, "none", "none", "none")

\* the outcomes a partial copy of tree can have: directories are made or
\* not, files are copied whole, not at all, or cut short
CopiedChoices(tree) ==
  {c \in [DOMAIN tree -> {"copied", "skipped", "truncated"}] :
     \A p \in DOMAIN tree : tree[p].kind = "dir" => c[p] # "truncated"}

JsonChoices(tree) ==
  IF "course.json" \in DOMAIN tree
    THEN {"ok", "read_fail", "open_fail", "write_fail"}
    ELSE {"none"}

\* the environments an invocation can meet in the current state
EnvChoices(tmpl, tgt) ==
  IF tgt.kind # "absent" \/ tmpl.kind = "missing" THEN {NoIO}
  ELSE IF tmpl.kind = "file"
    THEN {IO("fail_early", NoCopied, "none", "none", "none")}
  ELSE {IO("fail_early", NoCopied, "none", "none", "none")}
    \cup {IO("partial", c, "none", "none", "none") : c \in CopiedChoices(tmpl.tree)}
    \cup {IO("ok", NoCopied, "fail", "none", "none")}
    \cup {IO("ok", NoCopied, "ok", j, r) :
            j \in JsonChoices(tmpl.tree), r \in {"ok", "open_fail", "write_fail"}}

(***************************************************************************)
(* The steps of create_template                                            *)
(***************************************************************************)
Step(status, tgt, out) == [status |-> status, target |-> tgt, printed |-> out]

\* an existence check that only sees directories
path_exists_is_dir(node) == node.kind = "dir"

\* an existence check that never fires
path_exists_never(node) == FALSE

\* output_path.exists()
path_exists(node) == node.kind \in {"file", "dir"}

\* a template check that always passes
template_exists_always(tmpl) == TRUE

\* template_source.exists()
template_exists(tmpl) == tmpl.kind \in {"file", "dir"}

\* what a copy that raised partway leaves in the target directory
PartialTree(tree, copied) ==
  [p \in {q \in DOMAIN tree : copied[q] # "skipped"} |->
     IF copied[p] = "truncated" THEN File(TruncatedContent) ELSE tree[p]]

\* a copy of the top-level entries only
copytree_shallow(tmpl, tgt, env) ==
  IF tgt.kind # "absent" \/ tmpl.kind # "dir" \/ env.copy = "fail_early"
    THEN [ok |-> FALSE, target |-> tgt]
  ELSE IF env.copy = "partial"
    THEN [ok |-> FALSE, target |-> Node("dir", PartialTree(tmpl.tree, env.copied))]
  ELSE [ok |-> TRUE,
        target |-> Node("dir",
          [p \in DOMAIN tmpl.tree \ {"wiki_content/course.json"} |-> tmpl.tree[p]])]

\* shutil.copytree(template_source, output_path): raises when the target
\* exists or the source cannot be listed; otherwise makes the target
\* directory, copies what it can and raises at the end if any entry failed
copytree(tmpl, tgt, env) ==
  IF tgt.kind # "absent" \/ tmpl.kind # "dir" \/ env.copy = "fail_early"
    THEN [ok |-> FALSE, target |-> tgt]
  ELSE IF env.copy = "partial"
    THEN [ok |-> FALSE, target |-> Node("dir", PartialTree(tmpl.tree, env.copied))]
  ELSE [ok |-> TRUE, target |-> Node("dir", tmpl.tree)]

\* the copy step with its handler removed
copy_step_unguarded(tmpl, tgt, env) ==
  LET c == copytree(tmpl, tgt, env) IN
    IF c.ok THEN Step("ok", c.target, <<"banner", "copying">>)
    ELSE Step("raise", c.target, <<"banner", "copying">>)

\* the copy step with a handler that removes what was copied
copy_step_rollback(tmpl, tgt, env) ==
  LET c == copytree(tmpl, tgt, env) IN
    IF c.ok THEN Step("ok", c.target, <<"banner", "copying">>)
    ELSE Step("return_false", tgt, <<"banner", "copying", "error_copying">>)

\* the banner and the guarded copy
copy_step(tmpl, tgt, env) ==
  LET c == copytree(tmpl, tgt, env) IN
    IF c.ok THEN Step("ok", c.target, <<"banner", "copying">>)
    ELSE Step("return_false", c.target, <<"banner", "copying", "error_copying">>)

\* the listing of the copied entries: it changes nothing and is not guarded
listing_step(tgt, env) ==
  IF env.listing = "fail" THEN Step("raise", tgt, <<"copied_structure">>)
  ELSE Step("ok", tgt, <<"copied_structure">>)

\* json.load: the parsed object, or an exception
json_load(content) ==
  IF content.fmt \in {"json", "json_indent2"}
    THEN [ok |-> TRUE, is_object |-> TRUE, obj |-> content.obj]
  ELSE IF content.fmt = "json_other"
    THEN [ok |-> TRUE, is_object |-> FALSE, obj |-> EmptyObj]
  ELSE [ok |-> FALSE, is_object |-> FALSE, obj |-> EmptyObj]

\* json.dump(course_data, f, indent=2)
json_dump(obj) == Content("json_indent2", obj, <<>>, <<>>)

\* an update that builds a fresh object holding the two fields only
update_fields_fresh(obj, name) ==
  [k \in {"title", "course_code"} |->
     IF k = "title" THEN display_title(name) ELSE course_code(name)]

\* course_data['title'] = ...; course_data['course_code'] = ...
update_fields(obj, name) ==
  [k \in DOMAIN obj \cup {"title", "course_code"} |->
     IF k = "title" THEN display_title(name)
     ELSE IF k = "course_code" THEN course_code(name)
     ELSE obj[k]]

WithEntry(tree, path, entry) ==
  [p \in DOMAIN tree \cup {path} |-> IF p = path THEN entry ELSE tree[p]]

JsonWarning(tree) ==
  Step("ok", tree, <<"updating_course_json", "warn_course_json">>)

\* a rewrite that opens course.json for writing before it parses it
update_course_json_write_first(tree, name, env) ==
  IF "course.json" \notin DOMAIN tree THEN Step("ok", tree, <<>>)
  ELSE LET entry == tree["course.json"]
           parsed == json_load(entry.content)
       IN
    IF entry.kind = "dir" \/ env.json \in {"read_fail", "open_fail"}
      THEN JsonWarning(tree)
    ELSE IF ~parsed.ok \/ ~parsed.is_object \/ env.json = "write_fail"
      THEN JsonWarning(WithEntry(tree, "course.json", File(TruncatedContent)))
    ELSE Step("ok",
              WithEntry(tree, "course.json",
                        File(json_dump(update_fields(parsed.obj, name)))),
              <<"updating_course_json", "updated_course_json">>)

\* the course.json rewrite: every exception inside it becomes a warning
update_course_json(tree, name, env) ==
  IF "course.json" \notin DOMAIN tree THEN Step("ok", tree, <<>>)
  ELSE LET entry == tree["course.json"]
           parsed == json_load(entry.content)
       IN
    IF entry.kind = "dir" \/ env.json = "read_fail" THEN JsonWarning(tree)
    ELSE IF ~parsed.ok \/ ~parsed.is_object THEN JsonWarning(tree)
    ELSE IF env.json = "open_fail" THEN JsonWarning(tree)
    ELSE IF env.json = "write_fail"
      THEN JsonWarning(WithEntry(tree, "course.json", File(TruncatedContent)))
    ELSE Step("ok",
              WithEntry(tree, "course.json",
                        File(json_dump(update_fields(parsed.obj, name)))),
              <<"updating_course_json", "updated_course_json">>)

\* a README text that shows the display title where the directory name belongs
readme_content_title_only(name) ==
  Content("readme", EmptyObj, display_title(name), display_title(name))

\* the generated README text: its heading is the display title, and the
\* folder diagram and the build command hold output_dir
readme_content(name) == Content("readme", EmptyObj, display_title(name), name)

\* readme_path.write_text(readme_content), which is not guarded
write_readme(tree, name, env) ==
  IF "README.md" \in DOMAIN tree /\ tree["README.md"].kind = "dir"
    THEN Step("raise", tree, <<"updating_readme">>)
  ELSE IF env.readme = "open_fail"
    THEN Step("raise", tree, <<"updating_readme">>)
  ELSE IF env.readme = "write_fail"
    THEN Step("raise", WithEntry(tree, "README.md", File(TruncatedContent)),
              <<"updating_readme">>)
  ELSE Step("ok", WithEntry(tree, "README.md", File(readme_content(name))),
            <<"updating_readme", "readme_ok", "success">>)

Outcome(how, value, tgt, out) ==
  [outcome |-> how, result |-> value, target |-> tgt, printed |-> out]

\* the steps after a successful copy
after_copy(name, copied, env) ==
  LET l == listing_step(copied.target, env) IN
    IF l.status = "raise"
      THEN Outcome("raised", FALSE, l.target, copied.printed \o l.printed)
    ELSE
      LET j == update_course_json(l.target.tree, name, env)
          r == write_readme(j.target, name, env)
          out == copied.printed \o l.printed \o j.printed \o r.printed
      IN IF r.status = "raise"
           THEN Outcome("raised", FALSE, Node("dir", r.target), out)
           ELSE Outcome("returned", TRUE, Node("dir", r.target), out)

\* create_template(output_dir) from entry to return (or to the exception
\* that leaves it)
run_create_template(name, tmpl, tgt, env) ==
  IF path_exists(tgt)
    THEN Outcome("returned", FALSE, tgt, <<"error_exists">>)
  ELSE IF ~template_exists(tmpl)
    THEN Outcome("returned", FALSE, tgt, <<"error_template_not_found">>)
  ELSE
    LET c == copy_step(tmpl, tgt, env) IN
      IF c.status = "return_false"
        THEN Outcome("returned", FALSE, c.target, c.printed)
      ELSE IF c.status = "raise"
        THEN Outcome("raised", FALSE, c.target, c.printed)
      ELSE after_copy(name, c, env)

(***************************************************************************)
(* The state machine                                                       *)
(***************************************************************************)
Init ==
  /\ output_dir \in Names
  /\ template \in Templates
  /\ target \in InitialTargets
  /\ outcome = "none"
  /\ result = FALSE
  /\ printed = <<>>
  /\ io = NoIO
  /\ created = FALSE

create_template(name, env) ==
  LET r == run_create_template(name, template, target, env) IN
    /\ target' = r.target
    /\ outcome' = r.outcome
    /\ result' = r.result
    /\ printed' = r.printed
    /\ io' = env
    /\ created' = (created \/ (target.kind = "absent" /\ r.target.kind = "dir"))
    /\ UNCHANGED <<output_dir, template>>

\* main(): one run of the program with args.directory = output_dir
main == \E env \in EnvChoices(template, target) : create_template(output_dir, env)

Next == main

Spec == Init /\ [][Next]_vars

(***************************************************************************)
(* Vocabulary of the properties                                            *)
(***************************************************************************)
LastOf(s) == s[Len(s)]

Printed(msg) == \E i \in DOMAIN printed : printed[i] = msg

\* the relative paths of the regular files of a tree
FileSet(tree) == {p \in DOMAIN tree : tree[p].kind = "file"}

IsFileWith(tree, path, fmt) ==
  /\ path \in DOMAIN tree
  /\ tree[path].kind = "file"
  /\ tree[path].content.fmt = fmt

\* t is name with '-' and '_' turned into spaces, every letter that starts the
\* string or follows a character that is not a letter in upper case, and every
\* letter that follows a letter in lower case
IsTitleOf(t, name) ==
  /\ Len(t) = Len(name)
  /\ \A i \in 1..Len(name) :
       t[i] = IF name[i] \in {"-", "_"} THEN " "
              ELSE IF i > 1 /\ iscased(name[i-1]) THEN char_lower(name[i])
              ELSE char_upper(name[i])

\* t is name with '-' and '_' turned into spaces and every whitespace-delimited
\* word capitalized: first character upper-cased, the rest lower-cased
IsWordTitleOf(t, name) ==
  /\ Len(t) = Len(name)
  /\ \A i \in 1..Len(name) :
       t[i] = IF name[i] \in {"-", "_"} THEN " "
              ELSE IF i > 1 /\ name[i-1] \notin {"-", "_", " "} THEN char_lower(name[i])
              ELSE char_upper(name[i])

\* c is name with every lower-case letter in upper case and nothing else changed
IsUpperOf(c, name) ==
  /\ Len(c) = Len(name)
  /\ \A i \in 1..Len(name) :
       /\ ~islower(c[i])
       /\ islower(name[i]) => char_lower(c[i]) = name[i] /\ c[i] # name[i]
       /\ ~islower(name[i]) => c[i] = name[i]

\* the README.md of the target is the generated document, holding the display
\* title and the unmodified name
ReadmeGenerated ==
  /\ target.kind = "dir"
  /\ IsFileWith(target.tree, "README.md", "readme")
  /\ IsTitleOf(target.tree["README.md"].content.title, output_dir)
  /\ target.tree["README.md"].content.name = output_dir

\* the course.json of the target is the output of the rewrite
CourseJsonRewritten ==
  /\ target.kind = "dir"
  /\ IsFileWith(target.tree, "course.json", "json_indent2")

\* the course.json of the target is the one of the template
CourseJsonAsCopied ==
  /\ target.kind = "dir"
  /\ "course.json" \in DOMAIN target.tree
  /\ target.tree["course.json"] = template.tree["course.json"]

\* b is the JSON object a with at most title and course_code changed or added
OnlyTitleAndCodeDiffer(a, b) ==
  /\ DOMAIN b \ {"title", "course_code"} = DOMAIN a \ {"title", "course_code"}
  /\ \A k \in DOMAIN a \ {"title", "course_code"} : b[k] = a[k]

\* an exception left the invocation from one of its two unguarded steps
RaisedByListingOrReadme ==
  /\ outcome = "raised"
  /\ io.copy = "ok"
  /\ LastOf(printed) \in {"copied_structure", "updating_readme"}

(***************************************************************************)
(* C1                                                                      *)
(***************************************************************************)
\* C1: an invocation that finds the target path existing, as a file or as a
\* directory, returns False, prints only the already-exists error and leaves
\* the target exactly as it was.
C1_ExistingTargetUntouched ==
  [][target.kind # "absent" =>
       /\ outcome' = "returned"
       /\ result' = FALSE
       /\ printed' = <<"error_exists">>
       /\ target' = target]_vars

C1_Witness ==
  /\ ~created
  /\ outcome = "returned"
  /\ result = FALSE
  /\ printed = <<"error_exists">>
  /\ template.kind = "dir"
  /\ target.kind = "file"

(***************************************************************************)
(* C2                                                                      *)
(***************************************************************************)
\* C2: an invocation that finds the target absent and the template missing
\* returns False with the template-not-found error, before any copy message,
\* and the target is still absent afterwards.
C2_MissingTemplate ==
  [][(target.kind = "absent" /\ template.kind = "missing") =>
       /\ outcome' = "returned"
       /\ result' = FALSE
       /\ printed' = <<"error_template_not_found">>
       /\ target'.kind = "absent"]_vars

C2_Witness ==
  /\ template.kind = "missing"
  /\ target.kind = "absent"
  /\ outcome = "returned"
  /\ result = FALSE
  /\ printed = <<"error_template_not_found">>

(***************************************************************************)
(* C3                                                                      *)
(***************************************************************************)
ReturnedTrue == outcome = "returned" /\ result = TRUE

OtherFilesIdentical ==
  \A p \in FileSet(template.tree) \ {"course.json", "README.md"} :
     p \in DOMAIN target.tree /\ target.tree[p] = template.tree[p]

CourseJsonOnlyFieldsDiffer ==
  "course.json" \in FileSet(template.tree) =>
     \/ CourseJsonAsCopied
     \/ /\ CourseJsonRewritten
        /\ template.tree["course.json"].content.fmt = "json"
        /\ OnlyTitleAndCodeDiffer(template.tree["course.json"].content.obj,
                                  target.tree["course.json"].content.obj)

\* C3 as stated: after a True return the target holds exactly the template's
\* relative file paths, every file identical except course.json (title and
\* course_code only) and README.md.
C3_Original ==
  ReturnedTrue =>
    /\ target.kind = "dir"
    /\ FileSet(target.tree) = FileSet(template.tree)
    /\ OtherFilesIdentical
    /\ CourseJsonOnlyFieldsDiffer

\* C3 amended: after a True return the target holds the template's relative
\* file paths and README.md, every file identical to the template's except
\* README.md, which is the generated document, and course.json, which is as
\* copied, or rewritten with only title and course_code differing, or cut
\* short by a write that failed after the file was opened.
C3_CopyThenPersonalize ==
  ReturnedTrue =>
    /\ target.kind = "dir"
    /\ FileSet(target.tree) = FileSet(template.tree) \cup {"README.md"}
    /\ OtherFilesIdentical
    /\ ReadmeGenerated
    /\ \/ CourseJsonOnlyFieldsDiffer
       \/ /\ io.json = "write_fail"
          /\ IsFileWith(target.tree, "course.json", "truncated")

C3_Witness ==
  /\ ReturnedTrue
  /\ "README.md" \notin DOMAIN template.tree
  /\ "wiki_content/course.json" \in FileSet(target.tree)
  /\ CourseJsonRewritten
  /\ ReadmeGenerated

(***************************************************************************)
(* C4                                                                      *)
(***************************************************************************)
\* C4 as stated: no invocation ends with an exception.
C4_Original == outcome # "raised"

\* C4 amended: an invocation ends by returning True or False, or with an
\* exception of the listing or of the README.md write.  A failed precondition,
\* a missing template and a failed copy each end it with an error message and
\* False; a failed course.json rewrite prints a warning and the run goes on to
\* the README step.
C4_FailuresHandled ==
  /\ outcome = "raised" => RaisedByListingOrReadme
  /\ io.copy \in {"fail_early", "partial"} =>
       outcome = "returned" /\ result = FALSE /\ LastOf(printed) = "error_copying"
  /\ (outcome = "returned" /\ result = FALSE) =>
       LastOf(printed) \in {"error_exists", "error_template_not_found", "error_copying"}
  /\ Printed("warn_course_json") => Printed("updating_readme")
  /\ (outcome = "returned" /\ result = TRUE) => LastOf(printed) = "success"

C4_Witness ==
  /\ io.copy = "partial"
  /\ outcome = "returned"
  /\ result = FALSE
  /\ LastOf(printed) = "error_copying"

(***************************************************************************)
(* C5                                                                      *)
(***************************************************************************)
\* the last invocation copied a template whose course.json is not JSON
MalformedCopied ==
  /\ io.copy = "ok"
  /\ IsFileWith(template.tree, "course.json", "raw")

\* C5 as stated: with a malformed course.json copied, the invocation returns
\* True, course.json is as copied and a warning is printed.
C5_Original ==
  MalformedCopied =>
    /\ ReturnedTrue
    /\ CourseJsonAsCopied
    /\ Printed("warn_course_json")

\* C5 amended: with a malformed course.json copied, course.json stays as
\* copied; unless the listing raised, a warning is printed; and the invocation
\* returns True unless the listing or the README.md write raises, whose
\* exception then reaches the caller.
C5_MalformedJsonTolerated ==
  MalformedCopied =>
    /\ CourseJsonAsCopied
    /\ ReturnedTrue \/ RaisedByListingOrReadme
    /\ io.listing = "ok" => Printed("warn_course_json")
    /\ ~Printed("updated_course_json")

C5_Witness ==
  /\ MalformedCopied
  /\ ReturnedTrue
  /\ CourseJsonAsCopied
  /\ Printed("warn_course_json")
  /\ ReadmeGenerated

(***************************************************************************)
(* C6                                                                      *)
(***************************************************************************)
\* C6 as stated: the title in the rewritten course.json and in the README
\* heading is output_dir with separators turned into spaces and every
\* whitespace-delimited word capitalized.
C6_Original ==
  /\ (target.kind = "dir" /\ IsFileWith(target.tree, "README.md", "readme")) =>
       IsWordTitleOf(target.tree["README.md"].content.title, output_dir)
  /\ CourseJsonRewritten =>
       IsWordTitleOf(target.tree["course.json"].content.obj["title"], output_dir)

\* C6 amended: the title in the rewritten course.json and in the README
\* heading is output_dir with separators turned into spaces, every letter
\* that starts the string or follows a non-letter in upper case and every
\* letter that follows a letter in lower case; "year9-programming" gives
\* "Year9 Programming" and "biology_101" gives "Biology 101".
C6_DisplayTitle ==
  /\ (target.kind = "dir" /\ IsFileWith(target.tree, "README.md", "readme")) =>
       LET t == target.tree["README.md"].content.title IN
         /\ IsTitleOf(t, output_dir)
         /\ output_dir = Year9Programming =>
              t = <<"Y","e","a","r","9"," ","P","r","o","g","r","a","m","m","i","n","g">>
         /\ output_dir = Biology101 =>
              t = <<"B","i","o","l","o","g","y"," ","1","0","1">>
  /\ CourseJsonRewritten =>
       LET t == target.tree["course.json"].content.obj["title"] IN
         /\ IsTitleOf(t, output_dir)
         /\ output_dir = Year9Programming =>
              t = <<"Y","e","a","r","9"," ","P","r","o","g","r","a","m","m","i","n","g">>
         /\ output_dir = Biology101 =>
              t = <<"B","i","o","l","o","g","y"," ","1","0","1">>

C6_Witness ==
  /\ output_dir = <<"9", "a">>
  /\ CourseJsonRewritten
  /\ target.tree["course.json"].content.obj["title"] = <<"9", "A">>
  /\ IsFileWith(target.tree, "README.md", "readme")
  /\ target.tree["README.md"].content.title = <<"9", "A">>

(***************************************************************************)
(* C7                                                                      *)
(***************************************************************************)
\* C7: a rewritten course.json holds the template's object with title set to
\* the display title and course_code to output_dir in upper case (separators
\* as they were); every other key keeps its value, and no key other than title
\* and course_code is added or removed.
C7_RewriteFrame ==
  CourseJsonRewritten =>
    LET old == template.tree["course.json"].content.obj
        new == target.tree["course.json"].content.obj
    IN
      /\ IsFileWith(template.tree, "course.json", "json")
      /\ DOMAIN new = DOMAIN old \cup {"title", "course_code"}
      /\ \A k \in DOMAIN old \ {"title", "course_code"} : new[k] = old[k]
      /\ IsTitleOf(new["title"], output_dir)
      /\ IsUpperOf(new["course_code"], output_dir)

C7_Witness ==
  /\ CourseJsonRewritten
  /\ output_dir = Biology101
  /\ DOMAIN template.tree["course.json"].content.obj = {"id"}
  /\ target.tree["course.json"].content.obj =
       [k \in JsonKeys |->
          CASE k = "title" -> <<"B","i","o","l","o","g","y"," ","1","0","1">>
            [] k = "course_code" -> <<"B","I","O","L","O","G","Y","_","1","0","1">>
            [] OTHER -> <<"4","2">>]

(***************************************************************************)
(* C8                                                                      *)
(***************************************************************************)
\* C8 as stated: after every invocation whose copy succeeded README.md is the
\* generated document with the display title and the unmodified name.
C8_Original == io.copy = "ok" => ReadmeGenerated

\* C8 amended: an invocation whose copy succeeded either returns True, and
\* README.md is then the generated document with the display title and the
\* unmodified name whatever became of course.json, or ends with the exception
\* of the listing or of the README.md write, and README.md is then not the
\* generated document.
C8_ReadmeWritten ==
  io.copy = "ok" =>
    \/ ReturnedTrue /\ ReadmeGenerated
    \/ /\ RaisedByListingOrReadme
       /\ ~IsFileWith(target.tree, "README.md", "readme")

C8_Witness ==
  /\ io.copy = "ok"
  /\ Printed("warn_course_json")
  /\ IsFileWith(target.tree, "course.json", "truncated")
  /\ "README.md" \notin DOMAIN template.tree
  /\ ReadmeGenerated
  /\ output_dir = <<"a", "-">>

(***************************************************************************)
(* C9                                                                      *)
(***************************************************************************)
\* C9: once an invocation has made the target directory, every later
\* invocation with the same name returns False through the already-exists
\* check and leaves the target tree, course.json and README.md included, as
\* it was.
C9_SecondRunRefused ==
  [][created =>
       /\ target' = target
       /\ outcome' = "returned"
       /\ result' = FALSE
       /\ printed' = <<"error_exists">>
       /\ created']_vars

C9_Witness ==
  /\ created
  /\ outcome = "returned"
  /\ result = FALSE
  /\ printed = <<"error_exists">>
  /\ CourseJsonRewritten
  /\ ReadmeGenerated

(***************************************************************************)
(* C10                                                                     *)
(***************************************************************************)
\* C10: when the copy raises after the target directory was made, the
\* invocation returns False, the target holds exactly what the copy left
\* (every entry it copied, every file it cut short, nothing more, nothing
\* removed), and neither the course.json rewrite nor the README step ran.
C10_PartialCopyLeft ==
  io.copy = "partial" =>
    /\ outcome = "returned"
    /\ result = FALSE
    /\ LastOf(printed) = "error_copying"
    /\ ~Printed("updating_course_json")
    /\ ~Printed("updating_readme")
    /\ target.kind = "dir"
    /\ DOMAIN target.tree = {p \in DOMAIN template.tree : io.copied[p] # "skipped"}
    /\ \A p \in DOMAIN target.tree :
         /\ io.copied[p] = "copied" => target.tree[p] = template.tree[p]
         /\ io.copied[p] = "truncated" => target.tree[p] = File(TruncatedContent)

C10_Witness ==
  /\ io.copy = "partial"
  /\ outcome = "returned"
  /\ result = FALSE
  /\ IsFileWith(target.tree, "course.json", "json")
  /\ "README.md" \in DOMAIN template.tree
  /\ "README.md" \notin DOMAIN target.tree
  /\ IsFileWith(target.tree, "wiki_content/course.json", "truncated")

====
